---- MODULE Spec2Model ----
(***************************************************************************)
(* Model of the DatePicker2 component                                      *)
(* (src/src/views/landingPage/datePicker2.tsx).                            *)
(*                                                                         *)
(* State: the two React state cells `error` and `cleared`, the props the   *)
(* component was mounted with, the pending setTimeout callbacks, a clock,  *)
(* the rendered helper text and a record of what the last event handler    *)
(* did: ev.op the handler, ev.arg its argument, ev.calls the calls it made  *)
(* in order (a throw ends them), ev.at the clock when it ran and ev.pre    *)
(* the state cells it found.                                               *)
(*                                                                         *)
(* A JavaScript value that can reach the handlers is a record              *)
(*   [kind, t] with kind in "date" (a valid Date with time value t),       *)
(*   "invalid" (a Date whose time value is NaN), "null", "undefined",      *)
(*   "bool" (t = 1 for true, 0 for false) and "msg" (a log message).       *)
(* Time values are scaled: MaxTime stands for 8640000000000000, the        *)
(* largest time value a Date can hold, and -MaxTime for the smallest.      *)
(***************************************************************************)
EXTENDS Integers, Sequences, FiniteSets

VARIABLES minDate, maxDate, hasOnChange, error, cleared, timers, now,
          helperText, ev

vars == <<minDate, maxDate, hasOnChange, error, cleared, timers, now,
          helperText, ev>>

props == <<minDate, maxDate, hasOnChange>>

\* ---- bounds ----
MaxTime == 2          \* |time value| of the representable Dates
MaxTimers == 2        \* pending setTimeout callbacks
Tick == 1000          \* clock granularity, ms
MaxNow == 5000        \* the clock stops here, ms

\* ---- program constants ----
EPOCH == 0            \* new Date(0)
TIMEOUT == 2000       \* setTimeout(..., 2000)

\* ---- values ----
DateOf(t) == [kind |-> "date", t |-> t]
InvalidDate == [kind |-> "invalid", t |-> 0]
Null == [kind |-> "null", t |-> 0]
Undefined == [kind |-> "undefined", t |-> 0]
Bool(b) == [kind |-> "bool", t |-> IF b THEN 1 ELSE 0]
Msg == [kind |-> "msg", t |-> 0]

TimeValues == (0 - MaxTime) .. MaxTime
ValidDates == {DateOf(t) : t \in TimeValues}
\* what the wrapped picker can hand to handleChange (Date | null)
ChangeInputs == ValidDates \cup {InvalidDate, Null}
\* minDate?: Date, maxDate?: Date
BoundProps == ValidDates \cup {Undefined}

IsValid(d) == d.kind = "date"
\* date instanceof Date
InstanceOfDate(d) == d.kind \in {"date", "invalid"}
\* a < b on Dates: numeric comparison of the time values, false on NaN
Lt(a, b) == IsValid(a) /\ IsValid(b) /\ a.t < b.t
Gt(a, b) == IsValid(a) /\ IsValid(b) /\ a.t > b.t
\* a ?? b
Coalesce(a, b) == IF a.kind \in {"null", "undefined"} THEN b ELSE a

Call(fn, arg) == [fn |-> fn, kind |-> arg.kind, t |-> arg.t]
Throw == [fn |-> "throw", kind |-> "msg", t |-> 0]

Max(S) == CHOOSE x \in S : \A y \in S : y <= x

\* ---- rendering ----
\* helperText: error ? "Date is required" : ""
HelperText(err) == IF err THEN "Date is required" ELSE ""

\* ---- handleChange ----
\* props.minDate ?? new Date(0)
lowerBound == Coalesce(minDate, DateOf(EPOCH))
\* props.maxDate ?? new Date(8640000000000000)
upperBound == Coalesce(maxDate, DateOf(MaxTime))
\* variant: both comparisons written <= and >=, the bounds excluded
outOfRange_exclusive(date) ==
    \/ Lt(date, lowerBound) \/ Gt(date, upperBound)
    \/ (IsValid(date) /\ (date.t = lowerBound.t \/ date.t = upperBound.t))
\* variant: the comparison with the upper bound left out
outOfRange_noUpper(date) == Lt(date, lowerBound)
\* date < lowerBound || date > upperBound
outOfRange(date) == Lt(date, lowerBound) \/ Gt(date, upperBound)

\* variant: no assertion, null goes on to the range check and upstream
handleChangeCalls_noAssert(date) ==
    <<Call("setError", Bool(outOfRange(date)))>>
    \o (IF hasOnChange
        THEN <<Call("onChange", date)>>
        ELSE <<Call("Logger.warning", Msg)>>)
\* variant: returns after setError(true), the callback only for dates in range
handleChangeCalls_blocksOnError(date) ==
    IF ~InstanceOfDate(date)
    THEN <<Throw>>
    ELSE IF outOfRange(date)
    THEN <<Call("setError", Bool(TRUE))>>
    ELSE <<Call("setError", Bool(FALSE))>>
         \o (IF hasOnChange
             THEN <<Call("onChange", date)>>
             ELSE <<Call("Logger.warning", Msg)>>)
\* variant: props.onChange(date) called without the undefined check
handleChangeCalls_requiresOnChange(date) ==
    IF ~InstanceOfDate(date)
    THEN <<Throw>>
    ELSE <<Call("setError", Bool(outOfRange(date)))>>
         \o (IF hasOnChange THEN <<Call("onChange", date)>> ELSE <<Throw>>)
\* the calls handleChange(date) makes, in order
handleChangeCalls(date) ==
    IF ~InstanceOfDate(date)
    THEN <<Throw>>
    ELSE <<Call("setError", Bool(outOfRange(date)))>>
         \o (IF hasOnChange
             THEN <<Call("onChange", date)>>
             ELSE <<Call("Logger.warning", Msg)>>)

\* ---- handleClear ----
\* variant: the clear also resets the error flag
handleClearCalls_resetsError ==
    << Call("preventDefault", Undefined),
       Call("setCleared", Bool(TRUE)),
       Call("setError", Bool(FALSE)),
       Call("onClear", Null),
       Call("setTimeout", [kind |-> "ms", t |-> TIMEOUT]) >>
handleClearCalls ==
    << Call("preventDefault", Undefined),
       Call("setCleared", Bool(TRUE)),
       Call("onClear", Null),
       Call("setTimeout", [kind |-> "ms", t |-> TIMEOUT]) >>

\* variant: the callback sets the flag it was meant to reset
timeoutCalls_keepsShown == << Call("setCleared", Bool(TRUE)) >>
\* () => setCleared(false), the setTimeout callback
timeoutCalls == << Call("setCleared", Bool(FALSE)) >>

\* variant: the outside click does nothing, the alert waits for its timeout
outsideClickCalls_noop == << >>
\* onClick={() => setCleared(false)} of the OutsideClickHandler
outsideClickCalls == << Call("setCleared", Bool(FALSE)) >>

\* ---- effect of a handler's calls on the component ----
\* value of a state cell after the handler: the last value set, if any
LastSet(calls, fn, old) ==
    LET idx == {i \in 1..Len(calls) : calls[i].fn = fn}
    IN  IF idx = {} THEN old ELSE calls[Max(idx)].t = 1

RECURSIVE Scheduled(_, _)
\* deadlines of the timeouts the handler scheduled at time `at`
Scheduled(calls, at) ==
    IF calls = <<>> THEN <<>>
    ELSE (IF Head(calls).fn = "setTimeout" THEN <<at + Head(calls).t>> ELSE <<>>)
         \o Scheduled(Tail(calls), at)

\* run one handler to completion, then re-render
Run(op, arg, calls) ==
    /\ error' = LastSet(calls, "setError", error)
    /\ cleared' = LastSet(calls, "setCleared", cleared)
    /\ helperText' = HelperText(error')
    /\ ev' = [op |-> op, arg |-> arg, calls |-> calls, at |-> now,
              pre |-> [error |-> error, cleared |-> cleared]]

\* last clock value the model reaches
LastTick == (MaxNow \div Tick) * Tick

Init ==
    /\ minDate \in BoundProps
    /\ maxDate \in BoundProps
    /\ hasOnChange \in BOOLEAN
    /\ error = FALSE
    /\ cleared = FALSE
    /\ timers = <<>>
    /\ now = 0
    /\ helperText = HelperText(FALSE)
    /\ ev = [op |-> "mount", arg |-> Undefined, calls |-> <<>>, at |-> 0,
             pre |-> [error |-> FALSE, cleared |-> FALSE]]

\* the picker's onChange fires with a Date or null
HandleChange ==
    \E date \in ChangeInputs :
        /\ Run("change", date, handleChangeCalls(date))
        /\ UNCHANGED <<props, timers, now>>

\* the field's clear button / the action bar's clear
HandleClear ==
    /\ Len(timers) < MaxTimers
    /\ now + TIMEOUT <= LastTick
    /\ Run("clear", Null, handleClearCalls)
    /\ timers' = timers \o Scheduled(handleClearCalls, now)
    /\ UNCHANGED <<props, now>>

\* the oldest pending timeout is due and its callback runs
TimerFire ==
    /\ timers # <<>>
    /\ Head(timers) <= now
    /\ Run("timer", DateOf(Head(timers)), timeoutCalls)
    /\ timers' = Tail(timers)
    /\ UNCHANGED <<props, now>>

\* a click outside the alert; the handler is mounted only while cleared
OutsideClick ==
    /\ cleared
    /\ Run("dismiss", Undefined, outsideClickCalls)
    /\ UNCHANGED <<props, timers, now>>

\* time passes
Advance ==
    /\ now + Tick <= MaxNow
    /\ now' = now + Tick
    /\ UNCHANGED <<props, error, cleared, timers, helperText, ev>>

Next ==
    \/ HandleChange
    \/ HandleClear
    \/ TimerFire
    \/ OutsideClick
    \/ Advance

Spec == Init /\ [][Next]_vars

\* timers are macrotasks of the event loop: a due callback eventually runs
FairSpec == Init /\ [][Next]_vars /\ WF_vars(TimerFire) /\ WF_vars(Advance)

TypeOK ==
    /\ minDate \in BoundProps /\ maxDate \in BoundProps
    /\ hasOnChange \in BOOLEAN /\ error \in BOOLEAN /\ cleared \in BOOLEAN
    /\ Len(timers) <= MaxTimers
    /\ now \in 0..MaxNow

\* ---------------------------------------------------------------------
\* Properties
\* ---------------------------------------------------------------------
\* the last handler was handleChange with a valid Date
ChangedValid == ev.op = "change" /\ IsValid(ev.arg)
\* positions of the calls to fn the last handler made
CallsTo(fn) == {i \in 1..Len(ev.calls) : ev.calls[i].fn = fn}

\* C1: after a change event with a valid Date d, minDate <= d <= maxDate
\* (both ends inclusive; a bound that was not supplied is the one the range
\* check substitutes), the error flag is false, whatever it was before.
C1_InRangeClearsError ==
    (ChangedValid /\ lowerBound.t <= ev.arg.t /\ ev.arg.t <= upperBound.t)
        => error = FALSE

\* a date equal to the supplied minDate cleared an error that was showing
C1_Witness ==
    /\ ChangedValid /\ minDate # Undefined /\ maxDate # Undefined
    /\ ev.arg = minDate /\ ev.arg.t < maxDate.t
    /\ ev.pre.error /\ ~error

\* C2: after a change event with a valid Date d, d < minDate or d > maxDate,
\* the error flag is true and the helper text is "Date is required"; in every
\* state the helper text is "Date is required" when the error flag is true
\* and empty when it is false.
C2_OutOfRangeSetsError ==
    /\ (ChangedValid /\ (ev.arg.t < lowerBound.t \/ ev.arg.t > upperBound.t))
           => (error /\ helperText = "Date is required")
    /\ (helperText = "Date is required") <=> error
    /\ ~error => helperText = ""

\* a date above the supplied maxDate raised the error from a clean field
C2_Witness ==
    /\ ChangedValid /\ maxDate # Undefined /\ ev.arg.t > maxDate.t
    /\ ~ev.pre.error /\ error /\ helperText = "Date is required"

\* the bounds the specification gives the range check
SpecLower == IF minDate = Undefined THEN 0 - MaxTime ELSE minDate.t
SpecUpper == IF maxDate = Undefined THEN MaxTime ELSE maxDate.t

\* C3: a bound that is not supplied is the earliest (for minDate) or the
\* latest (for maxDate) representable date, so after a change event with a
\* valid Date the error flag says exactly whether the date is outside those
\* bounds, and with neither bound supplied it is false.
C3_DefaultsAreExtremes ==
    ChangedValid =>
        /\ error = (ev.arg.t < SpecLower \/ ev.arg.t > SpecUpper)
        /\ (minDate = Undefined /\ maxDate = Undefined) => ~error

\* neither bound supplied, and a date before 1 January 1970 raised the error
C3_Witness ==
    /\ ChangedValid /\ minDate = Undefined /\ maxDate = Undefined
    /\ ev.arg.t < EPOCH /\ error

\* C4: a clear action leaves cleared true and its timeout pending, due
\* TIMEOUT ms after the clear; a timeout callback runs no earlier than it is
\* due and leaves cleared false; and when due timers eventually fire the
\* notification is eventually hidden for good.
C4_ShownThenHidden ==
    /\ [](ev.op = "clear" =>
            /\ cleared
            /\ timers # <<>>
            /\ timers[Len(timers)] = ev.at + TIMEOUT)
    /\ [](ev.op = "timer" => (~cleared /\ ev.at >= ev.arg.t))
    /\ <>[](~cleared)

\* a timeout callback hid a notification that was visible
C4_Witness == ev.op = "timer" /\ ev.pre.cleared /\ ~cleared

\* C5: a clear action, a timer firing and an outside click leave the error
\* flag as they found it, and a change event leaves the cleared flag as it
\* found it.
C5_FlagsIndependent ==
    /\ ev.op \in {"clear", "timer", "dismiss"} => error = ev.pre.error
    /\ ev.op = "change" => cleared = ev.pre.cleared

\* the field was cleared while an error was showing, and it still shows
C5_Witness ==
    ev.op = "clear" /\ ev.pre.error /\ error /\ helperText = "Date is required"

\* C6: a change event whose value is not a Date instance throws at the
\* assertion: nothing else is called (no setError, no onChange), and the
\* error flag keeps the value it had.
C6_NonDateAborts ==
    (ev.op = "change" /\ ~InstanceOfDate(ev.arg)) =>
        /\ ev.calls = <<Throw>>
        /\ CallsTo("onChange") = {}
        /\ error = ev.pre.error

\* null arrived while an error was showing and onChange was configured
C6_Witness ==
    ev.op = "change" /\ ev.arg = Null /\ hasOnChange /\ ev.pre.error /\ error

\* C7: an outside click happens only while the notification is visible and
\* leaves it hidden at once, the timeout still pending; a timeout callback
\* that runs while the notification is hidden leaves it hidden.
C7_DismissHidesAtOnce ==
    /\ ev.op = "dismiss" => (ev.pre.cleared /\ ~cleared)
    /\ (ev.op = "timer" /\ ~ev.pre.cleared) => ~cleared

\* the notification was dismissed before the timeout of its clear was due
C7_Witness ==
    /\ ev.op = "dismiss" /\ ~cleared
    /\ timers # <<>> /\ ev.at < timers[Len(timers)]

\* C8: with onChange configured, a change event with a valid Date calls
\* onChange exactly once, with that date, in range or not, and does so after
\* its call to setError.
C8_CallbackAlwaysFires ==
    (ChangedValid /\ hasOnChange) =>
        /\ Cardinality(CallsTo("onChange")) = 1
        /\ \A i \in CallsTo("onChange") :
              /\ ev.calls[i].kind = ev.arg.kind /\ ev.calls[i].t = ev.arg.t
              /\ \E j \in CallsTo("setError") : j < i

\* an out-of-range date was passed upstream
C8_Witness ==
    ChangedValid /\ hasOnChange /\ error /\ CallsTo("onChange") # {}

\* C9: without onChange, a clear action still calls onClear exactly once,
\* with null, and shows the notification; a change event with a valid Date
\* still sets the error flag from the range check, logs a warning, calls no
\* onChange and does not throw.
C9_NoOnChangeDegrades ==
    ~hasOnChange =>
        /\ ev.op = "clear" =>
              /\ Cardinality(CallsTo("onClear")) = 1
              /\ \A i \in CallsTo("onClear") : ev.calls[i].kind = "null"
              /\ cleared
        /\ ChangedValid =>
              /\ error = (ev.arg.t < lowerBound.t \/ ev.arg.t > upperBound.t)
              /\ CallsTo("Logger.warning") # {}
              /\ CallsTo("onChange") = {}
              /\ CallsTo("throw") = {}

\* without onChange an out-of-range date raised the error and was logged
C9_Witness ==
    /\ ~hasOnChange /\ ChangedValid /\ ~ev.pre.error /\ error
    /\ CallsTo("Logger.warning") # {}

\* C10: a visible notification is hidden by a timeout callback only once
\* TIMEOUT ms have passed since the most recent clear: when a callback hides
\* it, no timeout of a later clear is still to come due.
C10_LaterClearRestartsTimer ==
    (ev.op = "timer" /\ ev.pre.cleared /\ ~cleared) =>
        \A i \in 1..Len(timers) : timers[i] <= ev.at
====
